---------------------------- MODULE Spec2Model ----------------------------
(***************************************************************************)
(* Model of the AutoThreshold FreeFrameGL plugin (Source/AutoThreshold.cpp *)
(* and Source/AutoThreshold.h): the parameter/blend state machine of the   *)
(* plugin object and the threshold estimators gradient, histo, otsu and    *)
(* entropySplit.                                                           *)
(*                                                                         *)
(* Numbers.  C float/double values are modelled as exact rationals plus    *)
(* the IEEE special values NaN, +Inf and -Inf; rounding is not modelled.   *)
(* The inputs are chosen so that the double arithmetic of the code is      *)
(* exact or its comparisons are decided far above rounding error.  C int   *)
(* values are mathematical integers; the largest one each gradient call    *)
(* produces is recorded so that the 32-bit range can be checked.           *)
(* unsigned short histogram bins wrap modulo 2^16.                         *)
(***************************************************************************)
EXTENDS Integers, Sequences, FiniteSets, TLC

VARIABLES
    \* ---- fields of the AutoThreshold object (AutoThreshold.h:41-47)
    m_Threshold,       \* float: effective threshold
    m_UserThreshold,   \* float: the Threshold parameter (user bias)
    m_AutoThreshold,   \* float: stored automatic estimate
    m_Auto,            \* int flag
    m_Field,           \* the other parameter fields, by parameter number:
                       \* m_Smoothness, m_TwoTone, m_Chroma, m_Red1 .. m_Alf2
    \* ---- environment of the plugin
    initialised,       \* InitGL has returned FF_SUCCESS
    alive,             \* the host process has not crashed
    uThreshold,        \* value last handed to glUniform1fARB(m_thresholdLocation, .)
    call,              \* the last host call: operation, inputs, return value
    autoSource,        \* the frame m_AutoThreshold was estimated from
    uniform,           \* the other shader uniforms, by parameter number
    gl_FragColor,      \* the last fragment the shader's main produced
    host,              \* what this host does: the parameters, values and
                       \* textures it passes, and whether its session is bounded
    nSet,              \* SetParameter calls of a bounded session
    lastSet,           \* per parameter, the value last passed to SetParameter
                       \* in a bounded session
    \* ---- estimator harness: one estimator call chain on one frame
    frame,             \* the texture content under test
    m_histogram,       \* unsigned short m_histogram[256]
    grad,              \* result and locals of the last gradient call
    iThresh,           \* result of the last otsu / entropySplit call
    pc                 \* which estimator calls were made

vars == <<m_Threshold, m_UserThreshold, m_AutoThreshold, m_Auto, m_Field,
          initialised, alive, uThreshold, call, autoSource, uniform,
          gl_FragColor, host, nSet, lastSet, frame, m_histogram, grad,
          iThresh, pc>>

pluginVars == <<m_Threshold, m_UserThreshold, m_AutoThreshold, m_Auto, m_Field,
                initialised, alive, uThreshold, call, autoSource, uniform,
                gl_FragColor, host, nSet, lastSet>>

estVars == <<frame, m_histogram, grad, iThresh, pc>>

-----------------------------------------------------------------------------
(* Program constants *)

\* #define FFPARAM_Threshold (0)
FFPARAM_Threshold == 0
\* #define FFPARAM_Smoothness (1)
FFPARAM_Smoothness == 1
\* #define FFPARAM_Auto (2)
FFPARAM_Auto == 2
FFPARAM_TwoTone == 3
FFPARAM_Chroma == 4
FFPARAM_Red1 == 5
FFPARAM_Grn1 == 6
FFPARAM_Blu1 == 7
FFPARAM_Alf1 == 8
FFPARAM_Red2 == 9
FFPARAM_Grn2 == 10
FFPARAM_Blu2 == 11
\* #define FFPARAM_Alf2 (12): the last parameter
FFPARAM_Alf2 == 12
\* unsigned short m_histogram[256]
HistBins == 256
\* unsigned short: 16 bits
UShortBits == 16
\* bytes per RGBA pixel: linePtr = buffer + i*(Width*4), lp = linePtr + j*4
BytesPerPixel == 4
\* for(i=4; i<Height-4; i+=4), for(j=4; j<Width-4; j+=4)
Stride == 4
\* INT_MAX of the 32-bit int of the build
IntMax == 2147483647

UShortMod == 2 ^ UShortBits

FF_SUCCESS == "FF_SUCCESS"
FF_FAIL == "FF_FAIL"

-----------------------------------------------------------------------------
(* Bounds of the model *)

\* user threshold values are k/UserDen for k in -1 .. UserDen+1, plus specials
UserDen == 2
\* ramp frames use slopes 1 .. MaxSlope (scaled) in both directions
MaxSlope == 2
\* a bounded session makes at most MaxSets SetParameter calls
MaxSets == 2

-----------------------------------------------------------------------------
(* IEEE floating point values: exact rationals and the special values *)

Abs(x) == IF x < 0 THEN -x ELSE x

Max(x, y) == IF x > y THEN x ELSE y

RECURSIVE GCD(_, _)
GCD(a, b) == IF b = 0 THEN a ELSE GCD(b, a % b)

FNaN == [k |-> "nan", n |-> 0, d |-> 1]
FPosInf == [k |-> "inf", n |-> 1, d |-> 1]
FNegInf == [k |-> "inf", n |-> -1, d |-> 1]

\* the finite value n/d (d # 0), in lowest terms with d > 0
FNum(n, d) ==
    LET g == GCD(Abs(n), Abs(d))
        s == IF d < 0 THEN -1 ELSE 1
    IN  [k |-> "num", n |-> (s * n) \div g, d |-> (s * d) \div g]

FInt(n) == [k |-> "num", n |-> n, d |-> 1]
FZero == FInt(0)
FOne == FInt(1)

IsNaN(x) == x.k = "nan"
IsZero(x) == x.k = "num" /\ x.n = 0
FSign(x) == IF x.n < 0 THEN -1 ELSE IF x.n > 0 THEN 1 ELSE 0
FInf(s) == IF s < 0 THEN FNegInf ELSE FPosInf

\* a < b; every comparison with NaN is false
FLt(a, b) ==
    IF IsNaN(a) \/ IsNaN(b) THEN FALSE
    ELSE IF a.k = "inf" THEN a.n < 0 /\ ~(b.k = "inf" /\ b.n < 0)
    ELSE IF b.k = "inf" THEN b.n > 0
    ELSE LET g == GCD(a.d, b.d)
         IN  a.n * (b.d \div g) < b.n * (a.d \div g)

FGt(a, b) == FLt(b, a)

\* x > 0.0
FPos(x) == (x.k = "num" /\ x.n > 0) \/ (x.k = "inf" /\ x.n > 0)

\* a == b in C: false when either is NaN
FEq(a, b) == ~IsNaN(a) /\ ~IsNaN(b) /\ a = b

\* a != b in C: true when either is NaN
FNe(a, b) == ~FEq(a, b)

FMul(a, b) ==
    IF IsNaN(a) \/ IsNaN(b) THEN FNaN
    ELSE IF a.k = "inf" \/ b.k = "inf"
         THEN IF IsZero(a) \/ IsZero(b) THEN FNaN ELSE FInf(FSign(a) * FSign(b))
    ELSE LET g1 == GCD(Abs(a.n), b.d)
             g2 == GCD(Abs(b.n), a.d)
         IN  FNum((a.n \div g1) * (b.n \div g2), (a.d \div g2) * (b.d \div g1))

FAdd(a, b) ==
    IF IsNaN(a) \/ IsNaN(b) THEN FNaN
    ELSE IF a.k = "inf" /\ b.k = "inf" THEN (IF a.n = b.n THEN a ELSE FNaN)
    ELSE IF a.k = "inf" THEN a
    ELSE IF b.k = "inf" THEN b
    ELSE LET g == GCD(a.d, b.d)
         IN  FNum(a.n * (b.d \div g) + b.n * (a.d \div g), (a.d \div g) * b.d)

FNeg(a) == IF IsNaN(a) THEN FNaN ELSE [a EXCEPT !.n = -a.n]

FSub(a, b) == FAdd(a, FNeg(b))

FDiv(a, b) ==
    IF IsNaN(a) \/ IsNaN(b) THEN FNaN
    ELSE IF a.k = "inf" /\ b.k = "inf" THEN FNaN
    ELSE IF a.k = "inf" THEN FInf(a.n * (IF FSign(b) < 0 THEN -1 ELSE 1))
    ELSE IF b.k = "inf" THEN FZero
    ELSE IF b.n = 0 THEN (IF a.n = 0 THEN FNaN ELSE FInf(FSign(a)))
    ELSE FMul(a, FNum(b.d, b.n))

\* 0 <= x <= 1 (false for NaN)
InUnit(x) == ~FLt(x, FZero) /\ ~FGt(x, FOne) /\ ~IsNaN(x)

-----------------------------------------------------------------------------
(* Frames: the content of the input texture.  A frame is a record          *)
(* [w, h, pat, a, b]; Pixel gives the 8-bit channel ch (0=R, 1=G, 2=B,     *)
(* 3=A) of the pixel in row `row` and column `col`.                        *)

Pixel(f, row, col, ch) ==
    IF ch = 3 THEN 255
    ELSE IF f.pat = "uniform" THEN f.a
    ELSE IF f.pat = "split" THEN (IF col < f.w \div 2 THEN f.a ELSE f.b)
    ELSE IF f.pat = "checker" THEN (IF (row + col) % 2 = 0 THEN f.a ELSE f.b)
    ELSE (17 * f.a * row + 29 * f.b * col + 7 * ch) % 256

\* R+G+B of the pixel at (row, col) of the frame
RGBSum(f, row, col) ==
    Pixel(f, row, col, 0) + Pixel(f, row, col, 1) + Pixel(f, row, col, 2)

\* malloc(Texture.Width*Texture.Height*4*sizeof(unsigned char))
BufSize(f) == IF f.w > 0 /\ f.h > 0 THEN f.w * f.h * BytesPerPixel ELSE 0

InBuf(f, off) == 0 <= off /\ off < BufSize(f)

\* The byte at offset off of the buffer LoadFromTexture fills from the
\* texture: glReadPixels(0, 0, width, height, GL_RGBA, GL_UNSIGNED_BYTE)
\* packs rows of width RGBA pixels, CopyMemory copies width*height*4 bytes.
LoadFromTexture(f, off) ==
    Pixel(f, off \div (f.w * BytesPerPixel),
             (off % (f.w * BytesPerPixel)) \div BytesPerPixel,
             off % BytesPerPixel)

\* *(buffer + off): a read outside the buffer yields 0 here and is counted
\* by the caller as an out-of-bounds read.
ReadByte(f, off) == IF InBuf(f, off) THEN LoadFromTexture(f, off) ELSE 0

-----------------------------------------------------------------------------
(* float AutoThreshold::gradient(unsigned char *buffer, int Width, int Height) *)

\* the offsets of the three bytes R, G, B read starting at byte offset p
Bytes3(p) == {p, p + 1, p + 2}

\* sum of the three bytes at offsets p, p+1, p+2
Sum3(f, p) == ReadByte(f, p) + ReadByte(f, p + 1) + ReadByte(f, p + 2)

\* a gradient whose upper neighbour is four rows up
UpOffFourRows(f) == -(f.w * 4) * Stride

\* the byte offsets, relative to lp, at which the loop body starts reading
\* the left, right, upper and lower neighbour (lp-4, lp+4, lp-Width*4, lp+Width*4)
LeftOff(f) == -4
RightOff(f) == 4
UpOff(f) == -(f.w * 4)
DownOff(f) == f.w * 4

\* how the loop body accumulates the lower neighbour: "bot = 0; top += ..."
VerticalTerms(up, down) == [top |-> up + down, bot |-> 0]

\* a gradient whose centre term also adds the alpha byte
MidSumWithAlpha(f, lp) == Sum3(f, lp) + ReadByte(f, lp + 3)

\* mid: the R, G, B bytes at lp, lp+1, lp+2
MidSum(f, lp) == Sum3(f, lp)

\* One execution of the body of the inner loop, for row i and column j.
GradSample(f, i, j) ==
    LET linePtr == i * (f.w * 4)
        lp == linePtr + j * 4
        left == Sum3(f, lp + LeftOff(f))
        mid == MidSum(f, lp)
        right == Sum3(f, lp + RightOff(f))
        v == VerticalTerms(Sum3(f, lp + UpOff(f)), Sum3(f, lp + DownOff(f)))
        ex == Abs(left - right)
        ey == Abs(v.top - v.bot)
        exy == Max(ex, ey)
        offs == Bytes3(lp + LeftOff(f)) \cup Bytes3(lp) \cup Bytes3(lp + RightOff(f))
                  \cup Bytes3(lp + UpOff(f)) \cup Bytes3(lp + DownOff(f))
    IN  [i |-> i, j |-> j, lp |-> lp, left |-> left, mid |-> mid, right |-> right,
         top |-> v.top, bot |-> v.bot, ex |-> ex, ey |-> ey, exy |-> exy,
         prod |-> exy * mid,
         oob |-> Cardinality({o \in offs : ~InBuf(f, o)})]

\* largest int the body computed for this sample
SampleMax(s) ==
    Max(s.left, Max(s.right, Max(s.top, Max(s.mid, Max(s.ex, Max(s.ey, Max(s.exy, s.prod)))))))

GradAcc0 ==
    [sum_exy |-> 0, sum_exy_fxy |-> 0, samples |-> <<>>, maxInt |-> 0, oob |-> 0]

GradStep(acc, s) ==
    [sum_exy |-> acc.sum_exy + s.exy,
     sum_exy_fxy |-> acc.sum_exy_fxy + s.prod,
     samples |-> Append(acc.samples, s),
     maxInt |-> Max(acc.maxInt, SampleMax(s)),
     oob |-> acc.oob + s.oob]

\* an inner loop that runs up to the last column
RECURSIVE GradColsToEdge(_, _, _, _)
GradColsToEdge(f, i, j, acc) ==
    IF acc.oob >= 0 /\ j < f.w
    THEN GradColsToEdge(f, i, j + Stride, GradStep(acc, GradSample(f, i, j)))
    ELSE acc

\* for(j=4; j<Width-4; j+=4)
RECURSIVE GradCols(_, _, _, _)
GradCols(f, i, j, acc) ==
    IF acc.oob >= 0 /\ j < f.w - 4
    THEN GradCols(f, i, j + Stride, GradStep(acc, GradSample(f, i, j)))
    ELSE acc

\* for(i=4; i<Height-4; i+=4)
RECURSIVE GradRows(_, _, _)
GradRows(f, i, acc) ==
    IF i < f.h - 4
    THEN GradRows(f, i + Stride, GradCols(f, i, 4, acc))
    ELSE acc

\* t = (int)(sum_exy_fxy / (sum_exy + 1.0)): both sums are non-negative
\* integers held exactly in a double, the cast truncates the quotient
GradQuotient(sum_exy_fxy, sum_exy) == sum_exy_fxy \div (sum_exy + 1)

\* return (float)t/(3*256)
GradResult(t) == FNum(t, 3 * 256)

gradient(f) ==
    LET acc == GradRows(f, 4, GradAcc0)
        t == GradQuotient(acc.sum_exy_fxy, acc.sum_exy)
    IN  [est |-> GradResult(t), t |-> t, sum_exy |-> acc.sum_exy,
         sum_exy_fxy |-> acc.sum_exy_fxy, samples |-> acc.samples,
         maxInt |-> Max(acc.maxInt, t), oob |-> acc.oob]

-----------------------------------------------------------------------------
(* The loops over the 256 gray levels and over the pixels of an image are   *)
(* written as "the iterations lo .. hi-1, in order": a range of more than   *)
(* one iteration is its lower half followed by its upper half.  TLC passes  *)
(* operator arguments unevaluated: each loop first reads its accumulator    *)
(* (a test that is always true), which evaluates it before the next         *)
(* iteration, as the sequential code does.                                  *)

(* void AutoThreshold::histo(unsigned char *buffer, int Width, int Height,  *)
(*                           unsigned short histogram[256])                 *)

\* memset((void *)histogram, 0, 256*sizeof(unsigned short))
ZeroHistogram == [k \in 0 .. HistBins - 1 |-> 0]

\* histogram[k/3]++ on an unsigned short
BinIncrement(c) == (c + 1) % UShortMod

\* k = R + G + B of the pixel at lp; the bin is k/3
HistoPixel(f, i, j, h) ==
    LET lp == i * (f.w * 4) + j * 4
        k == ReadByte(f, lp) + ReadByte(f, lp + 1) + ReadByte(f, lp + 2)
    IN  [h EXCEPT ![k \div 3] = BinIncrement(@)]

\* for(j=0; j<Width; j++): the iterations j = lo .. hi-1
RECURSIVE HistoCols(_, _, _, _, _)
HistoCols(f, i, lo, hi, h) ==
    IF h[0] < 0 \/ hi <= lo THEN h
    ELSE IF hi = lo + 1 THEN HistoPixel(f, i, lo, h)
    ELSE LET mid == (lo + hi) \div 2
         IN  HistoCols(f, i, mid, hi, HistoCols(f, i, lo, mid, h))

\* for(i=0; i<Height; i++): the iterations i = lo .. hi-1
RECURSIVE HistoRows(_, _, _, _)
HistoRows(f, lo, hi, h) ==
    IF h[0] < 0 \/ hi <= lo THEN h
    ELSE IF hi = lo + 1 THEN HistoCols(f, lo, 0, f.w, h)
    ELSE LET mid == (lo + hi) \div 2
         IN  HistoRows(f, mid, hi, HistoRows(f, lo, mid, h))

histo(f) == HistoRows(f, 0, f.h, ZeroHistogram)

\* the sum of the bins lo .. hi-1
RECURSIVE SumBins(_, _, _)
SumBins(h, lo, hi) ==
    IF hi <= lo THEN 0
    ELSE IF hi = lo + 1 THEN h[lo]
    ELSE LET mid == (lo + hi) \div 2
         IN  SumBins(h, lo, mid) + SumBins(h, mid, hi)

HistSum(h) == SumBins(h, 0, HistBins)

-----------------------------------------------------------------------------
(* int AutoThreshold::otsu(int Width, int Height, unsigned short hist[256]) *)

\* prob[i] = (double)hist[i] / (Width * Height)
OtsuProb(f, hist, i) == FDiv(FInt(hist[i]), FInt(f.w * f.h))

\* omega[] and myu[] as sequences (index i+1 holds element i)
\* omega[i] = omega[i-1] + prob[i]; myu[i] = myu[i-1] + i*prob[i]
OtsuCumStep(f, hist, i, cum) ==
    LET p == OtsuProb(f, hist, i)
    IN  [omega |-> Append(cum.omega, FAdd(cum.omega[i], p)),
         myu |-> Append(cum.myu, FAdd(cum.myu[i], FMul(FInt(i), p)))]

\* for (i = 1; i < 256; i++): the iterations i = lo .. hi-1
RECURSIVE OtsuCum(_, _, _, _, _)
OtsuCum(f, hist, lo, hi, cum) ==
    IF Len(cum.omega) = 0 \/ hi <= lo THEN cum
    ELSE IF hi = lo + 1 THEN OtsuCumStep(f, hist, lo, cum)
    ELSE LET mid == (lo + hi) \div 2
         IN  OtsuCum(f, hist, mid, hi, OtsuCum(f, hist, lo, mid, cum))

\* sigma[i]: inter-class variance, 0.0 when omega[i] is 0.0 or 1.0
OtsuSigma(cum, i) ==
    LET om == cum.omega[i + 1]
        x == FSub(FMul(cum.myu[HistBins], om), cum.myu[i + 1])
    IN  IF FNe(om, FZero) /\ FNe(om, FOne)
        THEN FDiv(FMul(x, x), FMul(om, FSub(FOne, om)))
        ELSE FZero

\* an otsu that lets a later equal maximum replace an earlier one
OtsuBetterOrEqual(sigma, max_sigma) == ~FLt(sigma, max_sigma)

\* if (sigma[i] > max_sigma)
OtsuBetter(sigma, max_sigma) == FGt(sigma, max_sigma)

\* { max_sigma = sigma[i]; threshold = i; }
OtsuScanStep(cum, i, best) ==
    LET sigma == OtsuSigma(cum, i)
    IN  IF OtsuBetter(sigma, best.max_sigma)
        THEN [threshold |-> i, max_sigma |-> sigma]
        ELSE best

\* for (i = 0; i < 256-1; i++): the iterations i = lo .. hi-1
RECURSIVE OtsuScan(_, _, _, _)
OtsuScan(cum, lo, hi, best) ==
    IF best.threshold < 0 \/ hi <= lo THEN best
    ELSE IF hi = lo + 1 THEN OtsuScanStep(cum, lo, best)
    ELSE LET mid == (lo + hi) \div 2
         IN  OtsuScan(cum, mid, hi, OtsuScan(cum, lo, mid, best))

otsu(f, hist) ==
    LET cum == OtsuCum(f, hist, 1, HistBins,
                       [omega |-> <<OtsuProb(f, hist, 0)>>, myu |-> <<FZero>>])
    IN  OtsuScan(cum, 0, HistBins - 1, [threshold |-> 0, max_sigma |-> FZero]).threshold

-----------------------------------------------------------------------------
(* int AutoThreshold::entropySplit(unsigned short histogram[256])           *)

LogScale == 2 ^ 10
MantScale == 2 ^ 14

\* largest e with n * 2^e <= d
RECURSIVE Log2Int(_, _, _)
Log2Int(n, d, e) == IF 2 * n <= d THEN Log2Int(2 * n, d, e + 1) ELSE e

\* the fractional bits of log2 of the mantissa m / MantScale in [1, 2)
RECURSIVE Log2Frac(_, _, _)
Log2Frac(m, bit, acc) ==
    IF bit = 0 THEN acc
    ELSE LET sq == (m * m) \div MantScale
         IN  IF sq >= 2 * MantScale
             THEN Log2Frac(sq \div 2, bit \div 2, acc + bit)
             ELSE Log2Frac(sq, bit \div 2, acc)

\* log(x) of <math.h> for a finite 0 < x <= 1, to a precision of about
\* 1/LogScale; exact for x = 1 (0) and strictly negative for x < 1.
Log(x) ==
    LET e == Log2Int(x.n, x.d, 0)
        m == (x.d * MantScale) \div (x.n * (2 ^ e))
        l2 == e * LogScale + Log2Frac(m, LogScale \div 2, 0)
    IN  \* ln x = log2 x * ln 2, with ln 2 = 45426 / 65536 to five digits
        FNum(-((l2 * 45426) \div 65536), LogScale)

\* normalizedHist[i] = hist[i] / sum, for i = lo .. hi-1
\* (normalizedHist and pT as sequences: index i+1 holds element i)
RECURSIVE EntNorm(_, _, _, _, _)
EntNorm(h, sum, lo, hi, nh) ==
    IF Len(nh) < 0 \/ hi <= lo THEN nh
    ELSE IF hi = lo + 1 THEN Append(nh, FDiv(FInt(h[lo]), FInt(sum)))
    ELSE LET mid == (lo + hi) \div 2
         IN  EntNorm(h, sum, mid, hi, EntNorm(h, sum, lo, mid, nh))

\* pT[i] = pT[i-1] + normalizedHist[i], for i = lo .. hi-1
RECURSIVE EntCum(_, _, _, _)
EntCum(nh, lo, hi, pT) ==
    IF Len(pT) = 0 \/ hi <= lo THEN pT
    ELSE IF hi = lo + 1 THEN Append(pT, FAdd(pT[lo], nh[lo + 1]))
    ELSE LET mid == (lo + hi) \div 2
         IN  EntCum(nh, mid, hi, EntCum(nh, lo, mid, pT))

\* if (normalizedHist[i] > epsilon)
\*    hh -= normalizedHist[i] / p * log(normalizedHist[i] / p);
EntTerm(nh, p, i, hh) ==
    IF FPos(nh[i + 1])
    THEN LET r == FDiv(nh[i + 1], p) IN FSub(hh, FMul(r, Log(r)))
    ELSE hh

\* the iterations i = lo .. hi-1 of the inner loops
RECURSIVE EntLoop(_, _, _, _, _)
EntLoop(nh, p, lo, hi, hh) ==
    IF hh.d = 0 \/ hi <= lo THEN hh
    ELSE IF hi = lo + 1 THEN EntTerm(nh, p, lo, hh)
    ELSE LET mid == (lo + hi) \div 2
         IN  EntLoop(nh, p, mid, hi, EntLoop(nh, p, lo, mid, hh))

\* hB[t]: black entropy, for(i=0; i<=t; i++)
EntBlack(nh, pT, t) ==
    IF FPos(pT[t + 1]) THEN EntLoop(nh, pT[t + 1], 0, t + 1, FZero) ELSE FZero

\* hW[t]: white entropy, pTW = 1 - pT[t], for(i=t+1; i<256; i++)
EntWhite(nh, pT, t) ==
    LET pTW == FSub(FOne, pT[t + 1])
    IN  IF FPos(pTW) THEN EntLoop(nh, pTW, t + 1, HistBins, FZero) ELSE FZero

\* dj = hB[t] + hW[t]; if(dj > djMax) { djMax = dj; tMax = t; }
EntScanStep(nh, pT, t, best) ==
    LET dj == FAdd(EntBlack(nh, pT, t), EntWhite(nh, pT, t))
    IN  IF FGt(dj, best.djMax) THEN [tMax |-> t, djMax |-> dj] ELSE best

\* an entropySplit whose maximum search stops before the last gray level
EntScanEndBeforeLast == HistBins - 1

\* one past the last candidate of "for(t=1; t<256; t++)"
EntScanEnd == HistBins

\* the iterations t = lo .. hi-1 of the maximum search
RECURSIVE EntScan(_, _, _, _, _)
EntScan(nh, pT, lo, hi, best) ==
    IF best.tMax < 0 \/ hi <= lo THEN best
    ELSE IF hi = lo + 1 THEN EntScanStep(nh, pT, lo, best)
    ELSE LET mid == (lo + hi) \div 2
         IN  EntScan(nh, pT, mid, hi, EntScan(nh, pT, lo, mid, best))

entropySplit(h) ==
    LET sum == SumBins(h, 0, HistBins)
    IN  IF sum = 0 THEN 0
        ELSE LET nh == EntNorm(h, sum, 0, HistBins, <<>>)
                 pT == EntCum(nh, 1, HistBins, <<nh[1]>>)
                 first == [tMax |-> 0,
                           djMax |-> FAdd(EntBlack(nh, pT, 0), EntWhite(nh, pT, 0))]
             IN  EntScan(nh, pT, 1, EntScanEnd, first).tMax

-----------------------------------------------------------------------------
(* The frames the estimators are applied to *)

Frame(w, h, pat, a, b) == [w |-> w, h |-> h, pat |-> pat, a |-> a, b |-> b]

\* frame contents for the given dimensions: single-colour, two-level and ramps
UniformFrames(dims, levels) ==
    {Frame(d[1], d[2], "uniform", a, a) : d \in dims, a \in levels}

TwoLevelFrames(dims, pairs) ==
    {Frame(d[1], d[2], pat, ab[1], ab[2]) :
        d \in dims, pat \in {"split", "checker"}, ab \in pairs}

RampFrames(dims) ==
    {Frame(d[1], d[2], "ramp", a, b) : d \in dims, a \in 1 .. MaxSlope, b \in 1 .. MaxSlope}

\* dimensions with no pixel at all
DegenerateDims == {<<0, 0>>, <<0, 9>>, <<9, 0>>, <<-1, 9>>, <<9, -1>>, <<-3, -3>>}

TinyDims == {<<1, 1>>, <<2, 1>>, <<3, 1>>, <<2, 2>>}

\* dimensions whose two-level frames have two equally populated levels
EvenDims == {<<2, 1>>, <<2, 2>>, <<8, 8>>, <<16, 12>>}

\* 8x8: no pixel is 4 away from every border; the others have 1 to 6 samples
MediumDims == {<<8, 8>>, <<9, 9>>, <<13, 9>>, <<9, 13>>, <<16, 12>>, <<17, 13>>}

\* the all-mid-gray 64x64 frame
Gray64 == Frame(64, 64, "uniform", 128, 128)

\* the 256x256 single-colour frame and the 256x256 frame with a black left
\* half and a white right half
Single256 == Frame(256, 256, "uniform", 200, 200)
BlackWhite256 == Frame(256, 256, "split", 0, 255)

GradFrames ==
    UniformFrames(DegenerateDims \cup TinyDims \cup MediumDims, {0, 128, 255})
      \cup TwoLevelFrames(MediumDims, {<<0, 255>>, <<255, 0>>, <<60, 200>>})
      \cup RampFrames(MediumDims) \cup {Gray64}

HistFrames ==
    UniformFrames(DegenerateDims, {128}) \cup UniformFrames(TinyDims, {0, 255})
      \cup TwoLevelFrames(EvenDims, {<<0, 255>>, <<255, 0>>, <<60, 200>>})
      \cup TwoLevelFrames({<<3, 1>>}, {<<0, 255>>})
      \cup RampFrames({<<2, 1>>, <<2, 2>>})
      \cup {Single256, BlackWhite256}

\* the textures the host hands to ProcessOpenGL
PluginFrames ==
    {Frame(0, 0, "uniform", 0, 0), Frame(9, 9, "uniform", 128, 128),
     Frame(9, 9, "uniform", 255, 255), Frame(13, 9, "split", 0, 255),
     Frame(9, 9, "ramp", 1, 1)}

\* pGL->inputTextures[0] == NULL
NoTexture == Frame(0, 0, "none", 0, 0)

\* what m_AutoThreshold holds: nothing yet (object just constructed), the
\* 0.0 of InitGL, or the outcome of reads through a null buffer
UninitSource == Frame(0, 0, "uninitialised", 0, 0)
InitSource == Frame(0, 0, "InitGL", 0, 0)
GarbageSource == Frame(0, 0, "garbage", 0, 0)

NoGrad == [est |-> FZero, t |-> 0, sum_exy |-> 0, sum_exy_fxy |-> 0,
           samples |-> <<>>, maxInt |-> 0, oob |-> 0]

-----------------------------------------------------------------------------
(* The plugin object *)

\* the values a host can pass as NewParameterValue, read as a float
ParamValues ==
    {FNum(k, UserDen) : k \in -1 .. UserDen + 1} \cup {FNaN, FPosInf}

\* a float member the constructor does not set holds any value
UninitFloats == {FZero, FNaN}

Call(op, param, value, ntex, tex, buffer, nullBytes, ret) ==
    [op |-> op, param |-> param, value |-> value, ntex |-> ntex, tex |-> tex,
     buffer |-> buffer, nullBytes |-> nullBytes, ret |-> ret]

EstimatorIdle ==
    /\ frame = NoTexture
    /\ m_histogram = ZeroHistogram
    /\ grad = NoGrad
    /\ iThresh = 0
    /\ pc = "idle"

\* the parameters held in m_Field: floats and int flags
FloatFields == {FFPARAM_Smoothness} \cup (FFPARAM_Red1 .. FFPARAM_Alf2)
FlagFields == {FFPARAM_TwoTone, FFPARAM_Chroma}
FieldParams == FloatFields \cup FlagFields

\* the default each SetParamInfo call of the constructor registers
ParamDefault(p) ==
    CASE p = FFPARAM_Threshold -> FNum(1, 2)
      [] p = FFPARAM_Grn1 -> FNum(82, 100)
      [] p \in {FFPARAM_Blu1, FFPARAM_Alf1, FFPARAM_Alf2} -> FOne
      [] p = FFPARAM_Red2 -> FNum(93, 100)
      [] OTHER -> FZero

\* the value the constructor assigns to each field next to its SetParamInfo
ConstructedField ==
    [p \in FieldParams |->
        CASE p \in FlagFields -> 0
          [] p \in {FFPARAM_Red1, FFPARAM_Blu1, FFPARAM_Alf1, FFPARAM_Alf2} -> FOne
          [] p = FFPARAM_Grn1 -> FNum(82, 100)
          [] p = FFPARAM_Red2 -> FNum(93, 100)
          [] OTHER -> FZero]

\* the uniforms of a freshly linked shader program
NoUniform == [p \in FieldParams |-> IF p \in FlagFields THEN 0 ELSE FZero]

\* no fragment shaded yet
NoFragment ==
    [mode |-> "none", f |-> FZero, c0 |-> <<FZero, FZero, FZero, FZero>>,
     rgba |-> <<FZero, FZero, FZero, FZero>>]

\* no SetParameter call recorded for a parameter
NoValue == [k |-> "none", n |-> 0, d |-> 1]

\* A host: the parameter numbers it sets, those of them it sets to each of
\* its values (the others it sets to 0.0 only), the textures it renders, and
\* whether its session is bounded (at most MaxSets SetParameter calls, which
\* are then recorded in lastSet).
Host(params, valued, values, textures, bounded) ==
    [params |-> params, valued |-> valued, values |-> values,
     textures |-> textures, bounded |-> bounded]

\* the host that drives the threshold: Threshold and Auto with every value
ThresholdHost ==
    Host({FFPARAM_Threshold, FFPARAM_Smoothness, FFPARAM_Auto, FFPARAM_Alf2 + 1},
         {FFPARAM_Threshold, FFPARAM_Auto}, ParamValues, PluginFrames, FALSE)

\* AutoThreshold::AutoThreshold(): sets the parameter fields, leaves
\* m_Threshold and m_AutoThreshold unset
Constructed(h) ==
    /\ m_UserThreshold = FNum(1, 2)
    /\ m_Auto = 0
    /\ m_Field = ConstructedField
    /\ m_Threshold \in UninitFloats
    /\ m_AutoThreshold \in UninitFloats
    /\ initialised = FALSE
    /\ alive = TRUE
    /\ uThreshold = FZero
    /\ uniform = NoUniform
    /\ gl_FragColor = NoFragment
    /\ autoSource = UninitSource
    /\ call = Call("AutoThreshold", 0, FZero, 0, NoTexture, "none", 0, FF_SUCCESS)
    /\ host = h
    /\ nSet = 0
    /\ lastSet = [p \in FFPARAM_Threshold .. FFPARAM_Alf2 |-> NoValue]
    /\ EstimatorIdle

Init == Constructed(ThresholdHost)

\* DWORD AutoThreshold::InitGL(const FFGLViewportStruct *vp)
InitGL ==
    /\ alive
    /\ \E extOK \in BOOLEAN :
         IF ~extOK
         THEN \* multitexture==0 || ARB_shader_objects==0: return FF_FAIL
              /\ call' = Call("InitGL", 0, FZero, 0, NoTexture, "none", 0, FF_FAIL)
              /\ UNCHANGED <<m_Threshold, m_UserThreshold, m_AutoThreshold, m_Auto,
                             initialised, alive, uThreshold, autoSource>>
         ELSE /\ m_Threshold' = FZero
              /\ m_UserThreshold' = FZero
              /\ m_AutoThreshold' = FZero
              /\ autoSource' = InitSource
              /\ initialised' = TRUE
              /\ call' = Call("InitGL", 0, FZero, 0, NoTexture, "none", 0, FF_SUCCESS)
              /\ UNCHANGED <<m_Auto, alive, uThreshold>>
    /\ UNCHANGED <<m_Field, uniform, gl_FragColor, host, nSet, lastSet>>
    /\ UNCHANGED estVars

\* DWORD AutoThreshold::DeInitGL()
DeInitGL ==
    /\ alive
    /\ initialised
    /\ initialised' = FALSE
    /\ call' = Call("DeInitGL", 0, FZero, 0, NoTexture, "none", 0, FF_SUCCESS)
    /\ UNCHANGED <<m_Threshold, m_UserThreshold, m_AutoThreshold, m_Auto, alive,
                   uThreshold, autoSource>>
    /\ UNCHANGED <<m_Field, uniform, gl_FragColor, host, nSet, lastSet>>
    /\ UNCHANGED estVars

\* "pParam->NewParameterValue > 0" compares the DWORD itself: it is true
\* for every bit pattern but that of 0.0f
ParamIsSet(value) == ~IsZero(value)

\* DWORD AutoThreshold::SetParameter(const SetParameterStruct* pParam)
SetParameter ==
    /\ alive
    /\ ~host.bounded \/ nSet < MaxSets
    /\ \E isNull \in BOOLEAN :
         IF isNull
         THEN \* pParam == NULL: return FF_FAIL
              /\ call' = Call("SetParameter", 0, FZero, 0, NoTexture, "none", 0, FF_FAIL)
              /\ UNCHANGED <<m_UserThreshold, m_Auto, m_Field, lastSet>>
         ELSE \E param \in host.params :
              \E value \in (IF param \in host.valued THEN host.values ELSE {FZero}) :
                 IF param = FFPARAM_Threshold
                 THEN /\ m_UserThreshold' = value
                      /\ call' = Call("SetParameter", param, value, 0, NoTexture, "none", 0, FF_SUCCESS)
                      /\ lastSet' = IF host.bounded THEN [lastSet EXCEPT ![param] = value]
                                    ELSE lastSet
                      /\ UNCHANGED <<m_Auto, m_Field>>
                 ELSE IF param = FFPARAM_Auto
                 THEN /\ m_Auto' = (IF ParamIsSet(value) THEN 1 ELSE 0)
                      /\ call' = Call("SetParameter", param, value, 0, NoTexture, "none", 0, FF_SUCCESS)
                      /\ lastSet' = IF host.bounded THEN [lastSet EXCEPT ![param] = value]
                                    ELSE lastSet
                      /\ UNCHANGED <<m_UserThreshold, m_Field>>
                 ELSE IF param \in FlagFields
                 THEN \* m_TwoTone, m_Chroma: 1 if NewParameterValue > 0, else 0
                      /\ m_Field' = [m_Field EXCEPT ![param] = IF ParamIsSet(value) THEN 1 ELSE 0]
                      /\ call' = Call("SetParameter", param, value, 0, NoTexture, "none", 0, FF_SUCCESS)
                      /\ lastSet' = IF host.bounded THEN [lastSet EXCEPT ![param] = value]
                                    ELSE lastSet
                      /\ UNCHANGED <<m_UserThreshold, m_Auto>>
                 ELSE IF param \in FloatFields
                 THEN \* m_Smoothness, m_Red1 .. m_Alf2: the value as a float
                      /\ m_Field' = [m_Field EXCEPT ![param] = value]
                      /\ call' = Call("SetParameter", param, value, 0, NoTexture, "none", 0, FF_SUCCESS)
                      /\ lastSet' = IF host.bounded THEN [lastSet EXCEPT ![param] = value]
                                    ELSE lastSet
                      /\ UNCHANGED <<m_UserThreshold, m_Auto>>
                 ELSE \* default: return FF_FAIL
                      /\ call' = Call("SetParameter", param, value, 0, NoTexture, "none", 0, FF_FAIL)
                      /\ UNCHANGED <<m_UserThreshold, m_Auto, m_Field, lastSet>>
    /\ nSet' = IF host.bounded THEN nSet + 1 ELSE nSet
    /\ UNCHANGED <<m_Threshold, m_AutoThreshold, initialised, alive, uThreshold,
                   autoSource, uniform, gl_FragColor, host>>
    /\ UNCHANGED estVars

\* DWORD AutoThreshold::GetParameter(DWORD dwIndex): the field of the
\* parameter as a float ((float)m_Auto, (float)m_TwoTone, (float)m_Chroma for
\* the flags) in the returned DWORD; FF_FAIL for any other index
GetParameter ==
    /\ alive
    /\ \E dwIndex \in FFPARAM_Threshold .. FFPARAM_Alf2 + 1 :
         call' = IF dwIndex = FFPARAM_Threshold
                 THEN Call("GetParameter", dwIndex, m_UserThreshold, 0, NoTexture, "none", 0, "DWORD")
                 ELSE IF dwIndex = FFPARAM_Auto
                 THEN Call("GetParameter", dwIndex, FInt(m_Auto), 0, NoTexture, "none", 0, "DWORD")
                 ELSE IF dwIndex \in FlagFields
                 THEN Call("GetParameter", dwIndex, FInt(m_Field[dwIndex]), 0, NoTexture, "none", 0, "DWORD")
                 ELSE IF dwIndex \in FloatFields
                 THEN Call("GetParameter", dwIndex, m_Field[dwIndex], 0, NoTexture, "none", 0, "DWORD")
                 ELSE Call("GetParameter", dwIndex, FZero, 0, NoTexture, "none", 0, FF_FAIL)
    /\ UNCHANGED <<m_Threshold, m_UserThreshold, m_AutoThreshold, m_Auto, m_Field,
                   initialised, alive, uThreshold, autoSource, uniform,
                   gl_FragColor, host, nSet, lastSet>>
    /\ UNCHANGED estVars

\* a host that sets and reads back every parameter in a short session:
\* Threshold, TwoTone and Red1 with two values, the others with 0.0
ParamHost ==
    Host(FFPARAM_Threshold .. FFPARAM_Alf2 + 1,
         {FFPARAM_Threshold, FFPARAM_TwoTone, FFPARAM_Red1},
         {FNum(1, UserDen), FOne}, {}, TRUE)

ParamInit == Constructed(ParamHost)

ParamNext == InitGL \/ DeInitGL \/ SetParameter \/ GetParameter

SpecParam == ParamInit /\ [][ParamNext]_vars

\* a blend without the factor 2.0
ThresholdForNoGain(auto, stored, user) ==
    IF auto # 0 THEN FMul(stored, user) ELSE user

\* if(m_Auto) m_Threshold = m_AutoThreshold*m_UserThreshold*2.0f;
\* else       m_Threshold = m_UserThreshold;
ThresholdFor(auto, stored, user) ==
    IF auto # 0 THEN FMul(FMul(stored, user), FInt(2)) ELSE user

\* if(m_Threshold < 0.0) m_Threshold = 0.0;
\* if(m_Threshold > 1.0) m_Threshold = 1.0;
ClampThreshold(x) ==
    LET y == IF FLt(x, FZero) THEN FZero ELSE x
    IN  IF FGt(y, FOne) THEN FOne ELSE y

\* gradient(buffer, Texture.Width, Texture.Height) for each texture the host
\* can hand over
TextureGradient == [tex \in PluginFrames |-> gradient(tex)]

\* an estimate that is averaged with the one stored before
AutoEstimateSmoothed(stored, tex) ==
    FDiv(FAdd(stored, TextureGradient[tex].est), FInt(2))

\* m_AutoThreshold = gradient(buffer, Texture.Width, Texture.Height): the
\* value stored before the call does not enter gradient
AutoEstimate(stored, tex) == TextureGradient[tex].est

\* the bytes LoadFromTexture writes (CopyMemory of width*height*4 bytes) and
\* gradient reads (15 per sampled pixel) through the buffer pointer
PtrBytes(tex) == BufSize(tex) + 15 * Len(TextureGradient[tex].samples)

\* an "Auto threshold option" block that runs on every frame
AutoBlockAlways(auto) == TRUE

\* if(m_Auto) { .. }: the block that allocates the buffer, reads the texture
\* back and estimates runs only with Auto on
AutoBlockRuns(auto) == auto # 0

\* DWORD AutoThreshold::ProcessOpenGL(ProcessOpenGLStruct *pGL); with
\* estimateFirst the "Auto threshold option" block would run before the
\* threshold is set and the quad is drawn; the code runs it after.
ProcessOpenGLSteps(estimateFirst) ==
    /\ alive
    /\ initialised
    /\ \E ntex \in {0, 1}, tex \in host.textures \cup {NoTexture}, mallocOK \in BOOLEAN :
         IF ntex < 1 \/ tex = NoTexture
         THEN \* return FF_FAIL
              /\ call' = Call("ProcessOpenGL", 0, FZero, ntex, tex, "none", 0, FF_FAIL)
              /\ UNCHANGED <<m_Threshold, m_AutoThreshold, alive, uThreshold, autoSource,
                             uniform, gl_FragColor>>
         ELSE LET est == IF estimateFirst /\ m_Auto # 0
                         THEN AutoEstimate(m_AutoThreshold, tex)
                         ELSE m_AutoThreshold
                  thr == ClampThreshold(ThresholdFor(m_Auto, est, m_UserThreshold))
              IN  /\ m_Threshold' = thr
                  \* glUniform1fARB(m_thresholdLocation, m_Threshold)
                  /\ uThreshold' = thr
                  \* glUniform1fARB(m_smoothnessLocation, m_Smoothness) ..
                  \* glUniform1fARB(m_alf2Location, m_Alf2)
                  /\ uniform' = m_Field
                  \* glBegin(GL_QUADS) .. glEnd(): the quad is shaded anew
                  /\ gl_FragColor' = NoFragment
                  /\ IF ~AutoBlockRuns(m_Auto)
                     THEN /\ call' = Call("ProcessOpenGL", 0, FZero, ntex, tex, "none", 0, FF_SUCCESS)
                          /\ UNCHANGED <<m_AutoThreshold, alive, autoSource>>
                     ELSE IF mallocOK \/ BufSize(tex) = 0
                     THEN \* buffer filled by LoadFromTexture, then
                          \* m_AutoThreshold = gradient(buffer, Width, Height)
                          /\ m_AutoThreshold' = AutoEstimate(m_AutoThreshold, tex)
                          /\ autoSource' = tex
                          /\ call' = Call("ProcessOpenGL", 0, FZero, ntex, tex,
                                          IF mallocOK THEN "ok" ELSE "null", 0, FF_SUCCESS)
                          /\ UNCHANGED alive
                     ELSE \* malloc returned NULL: the copy and the reads go
                          \* through a null pointer (undefined behaviour)
                          \/ \* the process dies in CopyMemory
                             /\ alive' = FALSE
                             /\ call' = Call("ProcessOpenGL", 0, FZero, ntex, tex, "null",
                                             BufSize(tex), "crash")
                             /\ UNCHANGED <<m_AutoThreshold, autoSource>>
                          \/ \* it survives and estimates from whatever it reads
                             \E g \in PluginFrames :
                                /\ g.w = tex.w /\ g.h = tex.h
                                /\ m_AutoThreshold' = AutoEstimate(m_AutoThreshold, g)
                                /\ autoSource' = GarbageSource
                                /\ call' = Call("ProcessOpenGL", 0, FZero, ntex, tex, "null",
                                                PtrBytes(tex), FF_SUCCESS)
                                /\ UNCHANGED alive
    /\ UNCHANGED <<m_UserThreshold, m_Auto, m_Field, initialised, host, nSet,
                   lastSet>>
    /\ UNCHANGED estVars

\* a ProcessOpenGL that estimates from the current frame before it blends
ProcessOpenGLEstimateFirst == ProcessOpenGLSteps(TRUE)

ProcessOpenGL == ProcessOpenGLSteps(FALSE)

Next == InitGL \/ DeInitGL \/ SetParameter \/ ProcessOpenGL

Spec == Init /\ [][Next]_vars

\* a host that changes the threshold, the mode flags and a colour between
\* the frames it renders
MemoryHost ==
    Host({FFPARAM_Threshold, FFPARAM_Auto, FFPARAM_TwoTone, FFPARAM_Red1},
         {FFPARAM_Threshold, FFPARAM_Auto, FFPARAM_TwoTone, FFPARAM_Red1},
         {FZero, FNum(1, UserDen)},
         {Frame(9, 9, "uniform", 128, 128), Frame(9, 9, "ramp", 1, 1)}, FALSE)

MemoryInit == Constructed(MemoryHost)

SpecMemory == MemoryInit /\ [][Next]_vars

-----------------------------------------------------------------------------
(* The fragment shader (fragmentShaderCode).  Vectors are tuples of floats. *)

\* float minChannel(in vec3 v)
minChannel(v) ==
    LET t == IF FLt(v[1], v[2]) THEN v[1] ELSE v[2]
    IN  IF FLt(t, v[3]) THEN t ELSE v[3]

\* float maxChannel(in vec3 v)
maxChannel(v) ==
    LET t == IF FGt(v[1], v[2]) THEN v[1] ELSE v[2]
    IN  IF FGt(t, v[3]) THEN t ELSE v[3]

\* delRGB = (((vec3(maxVal) - rgb) / 6.0) + (delta/2.0)) / delta
delRGB(rgb, maxVal, delta) ==
    [c \in 1 .. 3 |->
        FDiv(FAdd(FDiv(FSub(maxVal, rgb[c]), FInt(6)), FDiv(delta, FInt(2))), delta)]

\* hsv.x from the channel that holds the maximum; 0.0 when none compares
\* equal to it
hsvHue(rgb, maxVal, del) ==
    IF FEq(rgb[1], maxVal) THEN FSub(del[3], del[2])
    ELSE IF FEq(rgb[2], maxVal) THEN FSub(FAdd(FNum(1, 3), del[1]), del[3])
    ELSE IF FEq(rgb[3], maxVal) THEN FSub(FAdd(FNum(2, 3), del[2]), del[1])
    ELSE FZero

\* if ( hsv.x > 1.0 ) { hsv.x -= 1.0; }
hsvWrapDown(h) == IF FGt(h, FOne) THEN FSub(h, FOne) ELSE h

\* if ( hsv.x < 0.0 ) { hsv.x += 1.0; } and then the test against 1.0
hsvWrap(h) == hsvWrapDown(IF FLt(h, FZero) THEN FAdd(h, FOne) ELSE h)

\* the body of rgbToHsv once minVal, maxVal and delta are computed
hsvOf(rgb, maxVal, delta) ==
    IF FNe(delta, FZero)
    THEN <<hsvWrap(hsvHue(rgb, maxVal, delRGB(rgb, maxVal, delta))),
           FDiv(delta, maxVal), maxVal>>
    ELSE <<FZero, FZero, maxVal>>

\* float delta = maxVal - minVal, and the rest of rgbToHsv
hsvOfRange(rgb, minVal, maxVal) == hsvOf(rgb, maxVal, FSub(maxVal, minVal))

\* vec3 rgbToHsv(in vec3 rgb)
rgbToHsv(rgb) == hsvOfRange(rgb, minChannel(rgb), maxChannel(rgb))

\* floor(x) of a finite x
Floor(x) == x.n \div x.d

\* switch (int(var_i)) { case 0: rgb = vec3(hsv.z, var_3, var_1); .. }
hsvSector(var_i, z, var_1, var_2, var_3) ==
    CASE var_i = 0 -> <<z, var_3, var_1>>
      [] var_i = 1 -> <<var_2, z, var_1>>
      [] var_i = 2 -> <<var_1, z, var_3>>
      [] var_i = 3 -> <<var_1, var_2, z>>
      [] var_i = 4 -> <<var_3, var_1, z>>
      [] OTHER -> <<z, var_1, var_2>>

\* var_1, var_2, var_3 of hsvToRgb from var_i and var_h - var_i
hsvMix(hsv, var_i, frac) ==
    hsvSector(var_i, hsv[3],
              FMul(hsv[3], FSub(FOne, hsv[2])),
              FMul(hsv[3], FSub(FOne, FMul(hsv[2], frac))),
              FMul(hsv[3], FSub(FOne, FMul(hsv[2], FSub(FOne, frac)))))

\* float var_i = floor(var_h)
hsvFloor(hsv, var_h) == hsvMix(hsv, Floor(var_h), FSub(var_h, FInt(Floor(var_h))))

\* vec3 hsvToRgb(in vec3 hsv)
hsvToRgb(hsv) ==
    IF FNe(hsv[2], FZero) THEN hsvFloor(hsv, FMul(hsv[1], FInt(6)))
    ELSE <<hsv[3], hsv[3], hsv[3]>>

\* a mode test that looks at the TwoTone flag alone
IsTwoToneIgnoringChroma(TwoTone, Chroma) == TwoTone > 0

\* if(TwoTone > 0 && Chroma <= 0)
IsTwoTone(TwoTone, Chroma) == TwoTone > 0 /\ Chroma <= 0

\* else if(Chroma > 0 && TwoTone <= 0)
IsChroma(TwoTone, Chroma) == Chroma > 0 /\ TwoTone <= 0

\* the input colours c0 = texture2D(tex1, texCoord) of the shaded pixels
SourcePixels ==
    {<<FZero, FZero, FZero, FOne>>, <<FOne, FZero, FZero, FOne>>,
     <<FNum(1, 2), FNum(1, 2), FNum(1, 2), FOne>>,
     <<FNum(1, 4), FNum(1, 2), FNum(3, 4), FOne>>}

\* the results f of the built-in smoothstep(Threshold, Threshold+Smoothness,
\* luminance): values in [0,1]
SmoothValues == {FNum(k, 2 * UserDen) : k \in 0 .. 2 * UserDen}

\* void main(void) of the fragment shader, for one pixel of the quad that
\* the last ProcessOpenGL call drew
FragmentMain ==
    /\ alive
    /\ initialised
    /\ call.op = "ProcessOpenGL"
    /\ call.ret = FF_SUCCESS
    /\ \E c0 \in SourcePixels, f \in SmoothValues :
         LET c1 == <<uniform[FFPARAM_Red1], uniform[FFPARAM_Grn1],
                     uniform[FFPARAM_Blu1], uniform[FFPARAM_Alf1]>>
             c2 == <<uniform[FFPARAM_Red2], uniform[FFPARAM_Grn2],
                     uniform[FFPARAM_Blu2], uniform[FFPARAM_Alf2]>>
             hsv == rgbToHsv(<<c0[1], c0[2], c0[3]>>)
             \* float alf = Alf1; if(f > 0.5) alf = Alf2;
             alf == IF FGt(f, FNum(1, 2)) THEN uniform[FFPARAM_Alf2]
                    ELSE uniform[FFPARAM_Alf1]
         IN  gl_FragColor' =
               IF IsTwoTone(uniform[FFPARAM_TwoTone], uniform[FFPARAM_Chroma])
               THEN [mode |-> "2-tone", f |-> f, c0 |-> c0,
                     rgba |-> [k \in 1 .. 4 |->
                                 FAdd(FMul(f, c1[k]), FMul(FSub(FOne, f), c2[k]))]]
               ELSE IF IsChroma(uniform[FFPARAM_TwoTone], uniform[FFPARAM_Chroma])
               THEN LET c == hsvToRgb(<<hsv[1], hsv[2], f>>)
                    IN  [mode |-> "chroma", f |-> f, c0 |-> c0,
                         rgba |-> <<c[1], c[2], c[3], alf>>]
               ELSE [mode |-> "B&W", f |-> f, c0 |-> c0, rgba |-> <<f, f, f, alf>>]
    /\ UNCHANGED <<m_Threshold, m_UserThreshold, m_AutoThreshold, m_Auto, m_Field,
                   initialised, alive, uThreshold, call, autoSource, uniform,
                   host, nSet, lastSet>>
    /\ UNCHANGED estVars

\* the host that switches the output mode
ShadeHost ==
    Host({FFPARAM_TwoTone, FFPARAM_Chroma, FFPARAM_Alf1}, 
         {FFPARAM_TwoTone, FFPARAM_Chroma, FFPARAM_Alf1}, {FZero, FNum(1, UserDen), FOne},
         {Frame(9, 9, "uniform", 128, 128)}, FALSE)

ShadeInit == Constructed(ShadeHost)

ShadeNext == InitGL \/ SetParameter \/ ProcessOpenGL \/ FragmentMain

SpecShade == ShadeInit /\ [][ShadeNext]_vars

-----------------------------------------------------------------------------
(* Estimator harness: direct calls of the estimator methods on one frame *)

PluginIdle ==
    /\ m_Threshold = FZero
    /\ m_UserThreshold = FZero
    /\ m_AutoThreshold = FZero
    /\ m_Auto = 0
    /\ initialised = TRUE
    /\ alive = TRUE
    /\ uThreshold = FZero
    /\ autoSource = InitSource
    /\ call = Call("InitGL", 0, FZero, 0, NoTexture, "none", 0, FF_SUCCESS)
    /\ m_Field = ConstructedField
    /\ uniform = NoUniform
    /\ gl_FragColor = NoFragment
    /\ host = ThresholdHost
    /\ nSet = 0
    /\ lastSet = [p \in FFPARAM_Threshold .. FFPARAM_Alf2 |-> NoValue]

GradInit ==
    /\ PluginIdle
    /\ frame \in GradFrames
    /\ pc = "callGradient"
    /\ m_histogram = ZeroHistogram
    /\ grad = NoGrad
    /\ iThresh = 0

HistInit ==
    /\ PluginIdle
    /\ frame \in HistFrames
    /\ pc = "callHisto"
    /\ m_histogram = ZeroHistogram
    /\ grad = NoGrad
    /\ iThresh = 0

\* m_AutoThreshold = gradient(buffer, Texture.Width, Texture.Height)
Gradient ==
    /\ pc = "callGradient"
    /\ grad' = gradient(frame)
    /\ pc' = "gradient"
    /\ UNCHANGED <<frame, m_histogram, iThresh>>
    /\ UNCHANGED pluginVars

\* histo(buffer, (int)Texture.Width, (int)Texture.Height, m_histogram)
Histo ==
    /\ pc = "callHisto"
    /\ m_histogram' = histo(frame)
    /\ pc' = "histo"
    /\ UNCHANGED <<frame, grad, iThresh>>
    /\ UNCHANGED pluginVars

\* int iThresh = otsu((int)Texture.Width, (int)Texture.Height, m_histogram)
Otsu ==
    /\ pc = "histo"
    /\ iThresh' = otsu(frame, m_histogram)
    /\ pc' = "otsu"
    /\ UNCHANGED <<frame, m_histogram, grad>>
    /\ UNCHANGED pluginVars

\* int iThresh = entropySplit(m_histogram)
EntropySplit ==
    /\ pc = "histo"
    /\ iThresh' = entropySplit(m_histogram)
    /\ pc' = "entropySplit"
    /\ UNCHANGED <<frame, m_histogram, grad>>
    /\ UNCHANGED pluginVars

SpecGrad == GradInit /\ [][Gradient]_vars

HistNext == Histo \/ Otsu \/ EntropySplit

SpecHist == HistInit /\ [][HistNext]_vars

-----------------------------------------------------------------------------
(* Properties of the plugin object (specification Spec) *)

\* the last host call was a ProcessOpenGL that returned FF_SUCCESS
ProcessedOK == call.op = "ProcessOpenGL" /\ call.ret = FF_SUCCESS

\* ... and it ran the "Auto threshold option" block
ProcessedAuto == ProcessedOK /\ call.buffer # "none"

\* C1: the threshold every successful ProcessOpenGL call hands to the
\* shader's Threshold uniform is in [0,1], whatever Threshold values were
\* set.  Refuted: a NaN set as Threshold passes both comparisons of the clamp.
C1_UniformInUnit == ProcessedOK => InUnit(uThreshold)

\* C2 as stated: in auto mode the threshold a call renders with is blended
\* from the estimate of that same call's frame.
C2_BlendsCurrentFrame ==
    (ProcessedAuto /\ call.buffer = "ok")
        => uThreshold = ClampThreshold(ThresholdFor(1, TextureGradient[call.tex].est,
                                                    m_UserThreshold))

\* C2: in auto mode a ProcessOpenGL call blends, clamps and renders with the
\* estimate stored before the call (that of the previous auto frame), and
\* only then captures its own frame and stores the estimate of it for the
\* next call.
C2_BlendsStoredEstimate ==
    [][(call'.op = "ProcessOpenGL" /\ call'.ret = FF_SUCCESS /\ call'.buffer = "ok")
          => /\ uThreshold' = ClampThreshold(ThresholdFor(1, m_AutoThreshold, m_UserThreshold))
             /\ m_AutoThreshold' = TextureGradient[call'.tex].est
             /\ autoSource' = call'.tex]_vars

\* an auto frame rendered with a non-zero threshold that comes from the
\* estimate an earlier frame left behind
C2_Witness ==
    /\ ProcessedAuto
    /\ call.buffer = "ok"
    /\ FGt(uThreshold, FZero)
    /\ FLt(uThreshold, FOne)
    /\ uThreshold # ClampThreshold(ThresholdFor(1, TextureGradient[call.tex].est,
                                                m_UserThreshold))

\* clamp(x, 0, 1) by comparisons: below 0 gives 0, above 1 gives 1
C3_Clamp(x) == IF FLt(x, FZero) THEN FZero ELSE IF FGt(x, FOne) THEN FOne ELSE x

C9_MalformedFailsFast ==
    (ProcessedAuto \/ call.ret = "crash")
        => ((call.buffer = "null" \/ call.tex.w <= 0 \/ call.tex.h <= 0)
              => /\ call.ret = FF_SUCCESS
                 /\ call.nullBytes = 0
                 /\ m_AutoThreshold = FZero)

-----------------------------------------------------------------------------
(* Properties of gradient (specification SpecGrad) *)

\* C5 as stated: the neighbours are the pixels 4 columns and 4 rows away
C5_NeighboursFourAway ==
    pc = "gradient" =>
        \A k \in 1 .. Len(grad.samples) :
            LET s == grad.samples[k]
            IN  /\ s.left = RGBSum(frame, s.i, s.j - 4)
                /\ s.right = RGBSum(frame, s.i, s.j + 4)
                /\ s.top + s.bot = RGBSum(frame, s.i - 4, s.j) + RGBSum(frame, s.i + 4, s.j)
                /\ s.mid = RGBSum(frame, s.i, s.j)

\* C5: for the sample at (row i, column j) left is the R+G+B sum of the
\* adjacent pixel (i, j-1), right that of (i, j+1), mid that of (i, j), and
\* the vertical terms are those of (i-1, j) and (i+1, j), both added into top
\* while bot stays 0.
C5_NeighboursAdjacent ==
    pc = "gradient" =>
        \A k \in 1 .. Len(grad.samples) :
            LET s == grad.samples[k]
            IN  /\ s.left = RGBSum(frame, s.i, s.j - 1)
                /\ s.right = RGBSum(frame, s.i, s.j + 1)
                /\ s.top = RGBSum(frame, s.i - 1, s.j) + RGBSum(frame, s.i + 1, s.j)
                /\ s.bot = 0
                /\ s.mid = RGBSum(frame, s.i, s.j)

\* a ramp frame with several samples whose neighbours all differ
C5_Witness ==
    /\ pc = "gradient"
    /\ frame.pat = "ramp"
    /\ Len(grad.samples) >= 2
    /\ \E k \in 1 .. Len(grad.samples) :
          LET s == grad.samples[k]
          IN  s.left # s.right /\ s.left # s.mid /\ s.top # 2 * s.mid

\* C6: on a single-colour frame every sample has ex = ey = exy = 0, both
\* sums stay 0 and gradient returns 0.  Refuted: ey = |top - bot| with the
\* lower neighbour added into top and bot = 0.
C6_UniformGivesZero ==
    (pc = "gradient" /\ frame.pat = "uniform")
        => /\ \A k \in 1 .. Len(grad.samples) :
                 LET s == grad.samples[k] IN s.ex = 0 /\ s.ey = 0 /\ s.exy = 0
           /\ grad.sum_exy = 0
           /\ grad.sum_exy_fxy = 0
           /\ grad.est = FZero

\* C10: gradient returns a value in [0,1], its integer quotient t is in
\* 0 .. 3*255, and no int of the loop body exceeds 6*255 * 3*255, which is
\* below the largest 32-bit int.
C10_GradientInRange ==
    pc = "gradient"
        => /\ InUnit(grad.est)
           /\ 0 <= grad.t /\ grad.t <= 3 * 255
           /\ grad.maxInt <= (6 * 255) * (3 * 255)
           /\ (6 * 255) * (3 * 255) <= IntMax

\* a white frame: the quotient comes within one of 3*255
C10_Witness ==
    /\ pc = "gradient"
    /\ Len(grad.samples) > 1
    /\ grad.t = 3 * 255 - 1
    /\ grad.maxInt = (6 * 255) * (3 * 255)

-----------------------------------------------------------------------------
(* Properties of histo, otsu and entropySplit (specification SpecHist) *)

\* C4: after histo the 256 counts sum to width*height, also for the
\* 256x256 single-colour frame.  Refuted: a bin is an unsigned short.
C4_HistogramSum ==
    (pc \in {"histo", "otsu", "entropySplit"} /\ frame.w >= 0 /\ frame.h >= 0)
        => HistSum(m_histogram) = frame.w * frame.h

\* the frame has exactly two gray levels, equally populated
TwoEqualLevels ==
    /\ frame.pat \in {"split", "checker"}
    /\ frame.a # frame.b
    /\ m_histogram[frame.a] > 0
    /\ m_histogram[frame.a] = m_histogram[frame.b]
    /\ HistSum(m_histogram) = 2 * m_histogram[frame.a]

LowLevel == IF frame.a < frame.b THEN frame.a ELSE frame.b
HighLevel == IF frame.a < frame.b THEN frame.b ELSE frame.a

\* C7 as stated: otsu returns a level strictly between the two levels, and
\* 127 or 128 for the half black, half white 256x256 frame
C7_OtsuBetweenMeans ==
    (pc = "otsu" /\ TwoEqualLevels)
        => /\ LowLevel < iThresh /\ iThresh < HighLevel
           /\ (frame = BlackWhite256 => iThresh \in {127, 128})

\* C7: for two equally populated levels lo < hi otsu returns lo, the first
\* of the equal maxima of sigma over lo .. hi-1: 0 for the half black, half
\* white 256x256 frame.
C7_OtsuReturnsLowLevel ==
    (pc = "otsu" /\ TwoEqualLevels)
        => /\ iThresh = LowLevel
           /\ (frame = BlackWhite256 => iThresh = 0)

C7_Witness ==
    /\ pc = "otsu"
    /\ frame = BlackWhite256
    /\ TwoEqualLevels
    /\ m_histogram[0] = 32768
    /\ iThresh = 0

\* C8 as stated: with equal counts only at 0 and 255 entropySplit returns a
\* level near 127/128 and not one of the extremes
C8_EntropyNearMiddle ==
    (pc = "entropySplit" /\ TwoEqualLevels /\ LowLevel = 0 /\ HighLevel = 255)
        => /\ iThresh \notin {0, 255}
           /\ Abs(2 * iThresh - 255) <= 255 \div 2

\* C8: with equal counts only at 0 and 255 entropySplit returns 255, the
\* upper extreme: the entropy sum is 0 for every t below 255.
C8_EntropyReturnsTop ==
    (pc = "entropySplit" /\ TwoEqualLevels /\ LowLevel = 0 /\ HighLevel = 255)
        => iThresh = 255

C8_Witness ==
    /\ pc = "entropySplit"
    /\ frame = BlackWhite256
    /\ TwoEqualLevels
    /\ m_histogram[255] = 32768
    /\ iThresh = 255

-----------------------------------------------------------------------------
(* Properties of the fragment shader (specification SpecShade) *)

\* C11: each shaded pixel has exactly one output mode, chosen from the two
\* flags as SetParameter left them: f*c1 + (1-f)*c2 when TwoTone is set and
\* Chroma is not; the chroma-preserving colour with the thresholded alpha
\* when Chroma is set and TwoTone is not; (f, f, f, alpha) otherwise; alpha
\* is Alf1 if f <= 0.5 and Alf2 if not.
C11_OneModeFromFlags ==
    gl_FragColor.mode # "none" =>
        LET tt == uniform[FFPARAM_TwoTone]
            ch == uniform[FFPARAM_Chroma]
            f == gl_FragColor.f
            out == gl_FragColor.rgba
            alpha == IF FLt(f, FNum(1, 2)) \/ FEq(f, FNum(1, 2))
                     THEN uniform[FFPARAM_Alf1] ELSE uniform[FFPARAM_Alf2]
            c1 == <<uniform[FFPARAM_Red1], uniform[FFPARAM_Grn1],
                    uniform[FFPARAM_Blu1], uniform[FFPARAM_Alf1]>>
            c2 == <<uniform[FFPARAM_Red2], uniform[FFPARAM_Grn2],
                    uniform[FFPARAM_Blu2], uniform[FFPARAM_Alf2]>>
            hsv == rgbToHsv(<<gl_FragColor.c0[1], gl_FragColor.c0[2], gl_FragColor.c0[3]>>)
        IN  /\ tt \in {0, 1} /\ ch \in {0, 1}
            /\ IF tt = 1 /\ ch = 0
               THEN /\ gl_FragColor.mode = "2-tone"
                    /\ \A k \in 1 .. 4 :
                          out[k] = FAdd(FMul(f, c1[k]), FMul(FSub(FOne, f), c2[k]))
               ELSE IF ch = 1 /\ tt = 0
               THEN /\ gl_FragColor.mode = "chroma"
                    /\ <<out[1], out[2], out[3]>> = hsvToRgb(<<hsv[1], hsv[2], f>>)
                    /\ out[4] = alpha
               ELSE /\ gl_FragColor.mode = "B&W"
                    /\ out = <<f, f, f, alpha>>

\* a pixel above the middle shaded in grayscale while both flags are set
C11_Witness ==
    /\ gl_FragColor.mode = "B&W"
    /\ uniform[FFPARAM_TwoTone] = 1
    /\ uniform[FFPARAM_Chroma] = 1
    /\ FGt(gl_FragColor.f, FNum(1, 2))
    /\ gl_FragColor.rgba[4] = uniform[FFPARAM_Alf2]
    /\ uniform[FFPARAM_Alf1] # uniform[FFPARAM_Alf2]

-----------------------------------------------------------------------------
(* Properties of the estimate across calls (specification SpecMemory) *)

-----------------------------------------------------------------------------
(* Properties of the sampling of gradient (specification SpecGrad) *)

\* the pixels (i, j) with i in {4, 8, ..} below h-4 and j in {4, 8, ..} below w-4
SampleGrid(w, h) ==
    {<<i, j>> \in (4 .. h - 5) \X (4 .. w - 5) : i % 4 = 0 /\ j % 4 = 0}

\* C13: for width >= 0 and height >= 0 gradient samples exactly the pixels
\* (i, j) with i in {4, 8, ..} < height-4 and j in {4, 8, ..} < width-4, each
\* once; every byte it reads lies inside the width*height*4 bytes of the
\* buffer; with width < 9 or height < 9 it reads nothing.
C13_SamplesAndReads ==
    (pc = "gradient" /\ frame.w >= 0 /\ frame.h >= 0)
        => /\ {<<grad.samples[k].i, grad.samples[k].j>> : k \in 1 .. Len(grad.samples)}
                = SampleGrid(frame.w, frame.h)
           /\ Len(grad.samples) = Cardinality(SampleGrid(frame.w, frame.h))
           /\ grad.oob = 0
           /\ \A k \in 1 .. Len(grad.samples) :
                 LET s == grad.samples[k]
                 IN  /\ 0 <= s.lp - frame.w * 4
                     /\ s.lp + frame.w * 4 + 2 < frame.w * frame.h * 4
                     /\ s.lp = (s.i * frame.w + s.j) * 4
           /\ ((frame.w < 9 \/ frame.h < 9) => grad.samples = <<>>)

\* a 17x13 frame: two sampled rows of three pixels each
C13_Witness ==
    /\ pc = "gradient"
    /\ frame.w = 17
    /\ frame.h = 13
    /\ Len(grad.samples) = 6
    /\ grad.samples[6].i = 8
    /\ grad.samples[6].j = 12
    /\ grad.oob = 0

\* the estimate that the frame (or the InitGL) named by autoSource left in
\* m_AutoThreshold
EstimateOfSource ==
    IF autoSource = InitSource THEN FZero
    ELSE IF autoSource \in PluginFrames THEN TextureGradient[autoSource].est
    ELSE m_AutoThreshold

\* C14: a successful ProcessOpenGL call with Auto off leaves the stored
\* estimate alone and allocates and reads back no buffer; no SetParameter
\* changes the stored estimate; so the first auto frame after Auto was
\* switched off and on again is blended with the estimate of the last frame
\* processed while Auto was on (0.0 when there was none since InitGL), not
\* with that of a frame rendered in between.
C14_AutoOffKeepsEstimate ==
    [][/\ (call'.op = "ProcessOpenGL" /\ call'.ret = FF_SUCCESS /\ m_Auto = 0)
            => /\ m_AutoThreshold' = m_AutoThreshold
               /\ autoSource' = autoSource
               /\ call'.buffer = "none"
               /\ call'.nullBytes = 0
       /\ (call'.op = "SetParameter")
            => /\ m_AutoThreshold' = m_AutoThreshold
               /\ autoSource' = autoSource
       /\ (call'.op = "ProcessOpenGL" /\ call'.ret = FF_SUCCESS /\ m_Auto # 0)
            => /\ m_AutoThreshold = EstimateOfSource
               /\ uThreshold' = ClampThreshold(ThresholdFor(1, EstimateOfSource,
                                                            m_UserThreshold))]_vars

\* a frame rendered with Auto off after an auto frame of different content:
\* the stored estimate is still that of the auto frame
C14_Witness ==
    /\ ProcessedOK
    /\ m_Auto = 0
    /\ call.buffer = "none"
    /\ autoSource \in PluginFrames
    /\ call.tex \in PluginFrames
    /\ m_AutoThreshold = TextureGradient[autoSource].est
    /\ m_AutoThreshold # TextureGradient[call.tex].est

-----------------------------------------------------------------------------
(* Properties of the parameter interface (specification SpecParam) *)

\* C15: GetParameter of an index 0..12 returns the default registered with
\* SetParamInfo while no SetParameter was made for that index, before and
\* after InitGL, and the value of the last SetParameter for that index
\* afterwards.  Refuted: Red1 is registered with 0.0 and constructed as 1.0,
\* InitGL overwrites the Threshold value with 0.0, and the three flags give
\* back 1.0 for every value but 0.0.
C15_DefaultsAndValues ==
    (call.op = "GetParameter" /\ call.param \in FFPARAM_Threshold .. FFPARAM_Alf2)
        => call.value = IF lastSet[call.param] = NoValue
                        THEN ParamDefault(call.param)
                        ELSE lastSet[call.param]

=============================================================================
